---- MODULE Spec2Model ----
(***************************************************************************)
(* Huffman file compressor: the Encoder and Decoder of huffman.cpp and the *)
(* container functions of main.cpp (compress, encodeFile, writeHeader,     *)
(* readHeader, checkSig, decompress).                                      *)
(*                                                                         *)
(* The tree is kept as an arena: a sequence of nodes addressed by index,   *)
(* index 0 standing for nullptr.  A std::shared_ptr<Node> is an index.     *)
(***************************************************************************)
EXTENDS Integers, Sequences, FiniteSets, TLC

\* ------------------------------------------------------------------ bounds
\* Longest input file (in bytes) fed to compress.
MaxLen == 5
\* Longest input scanned by an Encoder that is then driven call by call.
MaxScan == 3
\* Most bytes handed to Encoder::encode by an arbitrary caller.
MaxData == 2
\* Most bytes handed to Decoder::decode by an arbitrary caller.
MaxPayload == 2
\* Largest expected length given to a Decoder by an arbitrary caller.
MaxFileLen == 3
\* Most bytes in one buffer handed to Decoder::decode by the loop of decompress.
MaxChunk == 1
\* Largest expected length of a Decoder run to the end by the loop of decompress.
MaxLoopLen == 4

\* The byte values that occur in input files.
Symbols == {0, 1, 2, 255}
\* The byte values an arbitrary payload is made of.
PayloadBytes == {0, 165, 255}

\* --------------------------------------------------------- program constants
NOT_A_CHAR == 256
BYTE == 256
MAX_BUFFER == 8192
HASH_LEN == 32
uniqueSig == <<65, 78, 72, 67>>
curFileVersion == [major |-> 1, minor |-> 1]

\* ------------------------------------------------------------------- state
VARIABLES
    pc,               \* where the run is
    err,              \* the error reported on std::cerr, "none" if none
    input,            \* the file given to compress
    m_freqTable,      \* Encoder::m_freqTable
    m_binMap,         \* Encoder::m_binMap
    m_huffmanTree,    \* Encoder::m_huffmanTree, [heap, root]
    m_buffer,         \* Encoder::m_buffer (uint8_t)
    m_curBit,         \* Encoder::m_curBit
    m_compressedSize, \* Encoder::m_compressedSize
    encIn,            \* every byte handed to Encoder::encode so far
    payload,          \* every byte written after the header so far
    treeBuilds,       \* the size of the table of each buildTree call so far
    m_hTree,          \* Decoder::m_hTree, [heap, root]
    m_curNode,        \* Decoder::m_curNode (0: nullptr)
    m_curByte,        \* Decoder::m_curByte
    m_fileLen,        \* Decoder::m_fileLen
    decIn,            \* every byte handed to Decoder::decode so far
    decoded,          \* every byte returned by Decoder::decode so far
    cuts,             \* "enc": an encode call began with bits pending from the
                      \* call before; "dec": a decode call began off the root
    hdrIn,            \* what compress hands to writeHeader
    container,        \* the bytes of the container file, header first
    rpos,             \* decompress: bytes read from the container so far
    header,           \* decompress: the Header readHeader returned
    output            \* decompress: the output file, "none" until created

encVars == <<m_freqTable, m_binMap, m_huffmanTree, m_buffer, m_curBit,
             m_compressedSize, encIn, payload>>
decVars == <<m_hTree, m_curNode, m_curByte, m_fileLen, decIn, decoded>>
fileVars == <<hdrIn, container, rpos, header, output>>
vars == <<pc, err, input, encVars, treeBuilds, decVars, cuts, fileVars>>

\* ----------------------------------------------------------------- helpers
RECURSIVE SeqsUpTo(_, _)
SeqsUpTo(S, n) ==
    IF n = 0 THEN {<<>>}
    ELSE LET shorter == SeqsUpTo(S, n - 1)
         IN shorter \cup {Append(s, x) : s \in {t \in shorter : Len(t) = n - 1}, x \in S}

Pow2(n) == 2 ^ n

NoTree == [heap |-> <<>>, root |-> 0]
EmptyMap == <<>>

\* struct Header as its constructor leaves it.
Header ==
    [fileVersion |-> [major |-> 0, minor |-> 0], hash |-> <<>>, fileSize |-> 0,
     compressedSize |-> 0, filename |-> <<>>, freqTable |-> EmptyMap]

\* The arguments of writeHeader: the file's length and name, the table and
\* the digest.
HeaderIn(fileLen, filename, freqTable, hash) ==
    [fileLen |-> fileLen, filename |-> filename, freqTable |-> freqTable,
     hash |-> hash]
NoHeaderIn == HeaderIn(0, <<>>, EmptyMap, <<>>)

\* std::map<uint8_t, T>::operator[] used as an lvalue: insert or overwrite.
MapPut(m, k, v) == [x \in DOMAIN m \cup {k} |-> IF x = k THEN v ELSE m[x]]

\* The keys of a std::map<uint8_t, T> in iteration order (ascending).
SortedKeys(S) ==
    LET InS(x) == x \in S
    IN SelectSeq([i \in 1..BYTE |-> i - 1], InS)

\* -------------------------------------------------------------------- Node
Leaf(character, freq) ==
    [left |-> 0, right |-> 0, character |-> character, freq |-> freq]

Branch(heap, left, right) ==
    [left |-> left, right |-> right, character |-> NOT_A_CHAR,
     freq |-> heap[left].freq + heap[right].freq]

\* ------------------------------------------------------------- popSmallest
\* The scan with <= for <: of equal frequencies the last one is kept.
RECURSIVE SmallestFromLast(_, _, _, _)
SmallestFromLast(heap, nodeVec, i, smallest) ==
    IF i > Len(nodeVec) THEN smallest
    ELSE SmallestFromLast(heap, nodeVec, i + 1,
             IF heap[nodeVec[i]].freq <= heap[nodeVec[smallest]].freq
             THEN i ELSE smallest)

\* The scan of popSmallest: the first node of the least frequency.
RECURSIVE SmallestFrom(_, _, _, _)
SmallestFrom(heap, nodeVec, i, smallest) ==
    IF i > Len(nodeVec) THEN smallest
    ELSE SmallestFrom(heap, nodeVec, i + 1,
             IF heap[nodeVec[i]].freq < heap[nodeVec[smallest]].freq
             THEN i ELSE smallest)

Erase(s, i) == SubSeq(s, 1, i - 1) \o SubSeq(s, i + 1, Len(s))

popSmallest(heap, nodeVec) ==
    LET smallest == SmallestFrom(heap, nodeVec, 1, 1)
    IN [node |-> nodeVec[smallest], rest |-> Erase(nodeVec, smallest)]

\* --------------------------------------------------------------- buildTree
\* The leaves, one per table entry, in the map's iteration order.
LeafHeap(freqTable) ==
    LET keys == SortedKeys(DOMAIN freqTable)
    IN [i \in 1..Len(keys) |-> Leaf(keys[i], freqTable[keys[i]])]

RECURSIVE MergeLoop(_, _)
MergeLoop(heap, nodes) ==
    IF Len(nodes) <= 1 THEN [heap |-> heap, root |-> nodes[1]]
    ELSE LET l == popSmallest(heap, nodes)
             r == popSmallest(heap, l.rest)
             grown == Append(heap, Branch(heap, l.node, r.node))
         IN MergeLoop(grown, Append(r.rest, Len(grown)))

\* Defined for a table with at least one entry; with none the code reads
\* nodes[0] of an empty vector (see BuildEncodingTree and NewDecoder).
buildTree(freqTable) ==
    LET heap == LeafHeap(freqTable)
    IN MergeLoop(heap, [i \in 1..Len(heap) |-> i])

\* ------------------------------------------------------------------ Encoder
\* Encoder::buildFreqTable: m_freqTable[byte] += 1 for every byte of input.
RECURSIVE buildFreqTable(_, _)
buildFreqTable(freqTable, data) ==
    IF data = <<>> THEN freqTable
    ELSE LET byte == Head(data)
             old == IF byte \in DOMAIN freqTable THEN freqTable[byte] ELSE 0
         IN buildFreqTable(MapPut(freqTable, byte, old + 1), Tail(data))

\* buildBinMap without "path.back() = 1": the right child is walked with the
\* left child's path.
RECURSIVE buildBinMapNoSwap(_, _, _, _)
buildBinMapNoSwap(heap, curNode, path, binMap) ==
    IF heap[curNode].character # NOT_A_CHAR
    THEN MapPut(binMap, heap[curNode].character, path)
    ELSE LET afterLeft == buildBinMapNoSwap(heap, heap[curNode].left,
                                            Append(path, 0), binMap)
         IN buildBinMapNoSwap(heap, heap[curNode].right, Append(path, 0), afterLeft)

\* Encoder::buildBinMap: the path to each leaf, 0 for left and 1 for right.
RECURSIVE buildBinMap(_, _, _, _)
buildBinMap(heap, curNode, path, binMap) ==
    IF heap[curNode].character # NOT_A_CHAR
    THEN MapPut(binMap, heap[curNode].character, path)
    ELSE LET afterLeft == buildBinMap(heap, heap[curNode].left, Append(path, 0), binMap)
         IN buildBinMap(heap, heap[curNode].right, Append(path, 1), afterLeft)

\* The Encoder's fields that encode and getBuffer read and write, with the
\* string the call leaves in its argument.
EncoderState(binMap, buffer, curBit, compressedSize) ==
    [m_binMap |-> binMap, m_buffer |-> buffer, m_curBit |-> curBit,
     m_compressedSize |-> compressedSize, data |-> <<>>]

\* The inner loop of Encoder::encode: the bits of one code.
RECURSIVE encodeBits(_, _, _)
encodeBits(st, code, i) ==
    IF i > Len(code) THEN st
    ELSE LET curBit == st.m_curBit + 1
             buffer == ((st.m_buffer * 2) % BYTE) + code[i]
         IN encodeBits(
                IF curBit = 8
                THEN [st EXCEPT !.m_buffer = buffer, !.m_curBit = 0,
                                !.m_compressedSize = @ + 1,
                                !.data = Append(@, buffer)]
                ELSE [st EXCEPT !.m_buffer = buffer, !.m_curBit = curBit],
                code, i + 1)

\* The outer loop of Encoder::encode.  m_binMap[character] is
\* std::map::operator[]: a byte with no entry gets an empty code inserted.
RECURSIVE encodeBytes(_, _, _)
encodeBytes(st, data, k) ==
    IF k > Len(data) THEN st
    ELSE LET character == data[k]
             binMap == IF character \in DOMAIN st.m_binMap THEN st.m_binMap
                       ELSE MapPut(st.m_binMap, character, <<>>)
         IN encodeBytes(encodeBits([st EXCEPT !.m_binMap = binMap],
                                   binMap[character], 1),
                        data, k + 1)

\* encode with the accumulator local to the call: every call starts with an
\* empty one.
encodeFresh(st, data) ==
    encodeBytes([st EXCEPT !.data = <<>>, !.m_buffer = 0, !.m_curBit = 0], data, 1)

\* Encoder::encode(data): the encoder after the call, and in .data the
\* string the call overwrites its argument with.
encode(st, data) == encodeBytes([st EXCEPT !.data = <<>>], data, 1)

\* getBuffer without the shift: the pending bits stay right-justified.
getBufferUnshifted(st) ==
    [byte |-> st.m_buffer,
     m_buffer |-> 0,
     m_compressedSize |-> IF st.m_buffer # 0 THEN st.m_compressedSize + 1
                          ELSE st.m_compressedSize]

\* Encoder::getBuffer: the returned byte, and the fields after the call.
getBuffer(st) ==
    [byte |-> (st.m_buffer * Pow2(8 - st.m_curBit)) % BYTE,
     m_buffer |-> 0,
     m_compressedSize |-> IF st.m_buffer # 0 THEN st.m_compressedSize + 1
                          ELSE st.m_compressedSize]

\* ------------------------------------------------------------------ Decoder
DecoderState(curNode, curByte) ==
    [m_curNode |-> curNode, m_curByte |-> curByte, data |-> <<>>,
     crashed |-> FALSE]

Bit(byte, i) == (byte \div Pow2(i)) % 2

\* decode without "if (m_curByte <= m_fileLen)": every leaf reached is
\* added to the output.
decodeBitUnlimited(st, tree, fileLen, bit) ==
    IF st.crashed THEN st
    ELSE IF st.m_curNode = 0 THEN [st EXCEPT !.crashed = TRUE]
    ELSE LET isLeaf == tree.heap[st.m_curNode].character # NOT_A_CHAR
             curByte == IF isLeaf THEN st.m_curByte + 1 ELSE st.m_curByte
             out == IF isLeaf
                    THEN Append(st.data, tree.heap[st.m_curNode].character)
                    ELSE st.data
             from == IF isLeaf THEN tree.root ELSE st.m_curNode
             to == IF bit = 0 THEN tree.heap[from].left
                   ELSE tree.heap[from].right
         IN [st EXCEPT !.m_curNode = to, !.m_curByte = curByte, !.data = out]

\* decode without "m_curNode = m_hTree" at a leaf: the walk goes on from the
\* leaf, whose children are null.
decodeBitNoReset(st, tree, fileLen, bit) ==
    IF st.crashed THEN st
    ELSE IF st.m_curNode = 0 THEN [st EXCEPT !.crashed = TRUE]
    ELSE LET isLeaf == tree.heap[st.m_curNode].character # NOT_A_CHAR
             curByte == IF isLeaf THEN st.m_curByte + 1 ELSE st.m_curByte
             out == IF isLeaf /\ curByte <= fileLen
                    THEN Append(st.data, tree.heap[st.m_curNode].character)
                    ELSE st.data
             from == st.m_curNode
             to == IF bit = 0 THEN tree.heap[from].left
                   ELSE tree.heap[from].right
         IN [st EXCEPT !.m_curNode = to, !.m_curByte = curByte, !.data = out]

\* The body of the inner loop of Decoder::decode: one bit.
\* m_curNode->character with m_curNode == nullptr is a null dereference: the
\* process is killed and the string of this call is never handed back.
decodeBit(st, tree, fileLen, bit) ==
    IF st.crashed THEN st
    ELSE IF st.m_curNode = 0 THEN [st EXCEPT !.crashed = TRUE]
    ELSE LET isLeaf == tree.heap[st.m_curNode].character # NOT_A_CHAR
             curByte == IF isLeaf THEN st.m_curByte + 1 ELSE st.m_curByte
             out == IF isLeaf /\ curByte <= fileLen
                    THEN Append(st.data, tree.heap[st.m_curNode].character)
                    ELSE st.data
             from == IF isLeaf THEN tree.root ELSE st.m_curNode
             to == IF bit = 0 THEN tree.heap[from].left
                   ELSE tree.heap[from].right
         IN [st EXCEPT !.m_curNode = to, !.m_curByte = curByte, !.data = out]

\* The inner loop of Decoder::decode: bits 7 down to 0 of one byte.  The
\* state a bit leaves is bound once, as a value, for the bit after it.
RECURSIVE decodeBits(_, _, _, _, _)
decodeBits(st, tree, fileLen, byte, i) ==
    IF i < 0 THEN st
    ELSE decodeBits(
             CHOOSE next \in {decodeBit(s, tree, fileLen, Bit(byte, i)) : s \in {st}} : TRUE,
             tree, fileLen, byte, i - 1)

RECURSIVE decodeBytes(_, _, _, _, _)
decodeBytes(st, tree, fileLen, data, k) ==
    IF k > Len(data) \/ st.crashed THEN st
    ELSE decodeBytes(decodeBits(st, tree, fileLen, data[k], 7),
                     tree, fileLen, data, k + 1)

\* Decoder::decode(data).
decode(st, tree, fileLen, data) ==
    decodeBytes([st EXCEPT !.data = <<>>], tree, fileLen, data, 1)

\* Decoder::done.
done(curByte, fileLen) == curByte >= fileLen

\* ------------------------------------------------------------ compress side
Min(a, b) == IF a < b THEN a ELSE b

\* createPrefix: the file read in chunks of at most MAX_BUFFER bytes, each
\* handed to Encoder::buildFreqTable.
RECURSIVE createPrefix(_, _, _)
createPrefix(freqTable, file, curByte) ==
    IF curByte >= Len(file) THEN freqTable
    ELSE LET size == Min(MAX_BUFFER, Len(file) - curByte)
         IN createPrefix(
                buildFreqTable(freqTable, SubSeq(file, curByte + 1, curByte + size)),
                file, curByte + size)

BaseState(at, file, in) ==
    /\ pc = at
    /\ err = "none"
    /\ input = file
    /\ m_freqTable = EmptyMap
    /\ m_binMap = EmptyMap
    /\ m_huffmanTree = NoTree
    /\ m_buffer = 0
    /\ m_curBit = 0
    /\ m_compressedSize = 0
    /\ encIn = <<>>
    /\ payload = <<>>
    /\ treeBuilds = <<>>
    /\ m_hTree = NoTree
    /\ m_curNode = 0
    /\ m_curByte = 0
    /\ m_fileLen = 0
    /\ decIn = <<>>
    /\ decoded = <<>>
    /\ cuts = {}
    /\ hdrIn = in
    /\ container = <<>>
    /\ rpos = 0
    /\ header = Header
    /\ output = "none"

StartState(file) == BaseState("start", file, NoHeaderIn)

\* compress up to and including createPrefix: Encoder encoder(fileLen) and
\* the frequency scan.
CreatePrefix ==
    /\ pc = "start"
    /\ m_freqTable' = createPrefix(m_freqTable, input, 0)
    /\ pc' = "scanned"
    /\ UNCHANGED <<err, input, m_binMap, m_huffmanTree, m_buffer, m_curBit,
                   m_compressedSize, encIn, payload, treeBuilds, decVars, cuts, fileVars>>

\* Encoder::buildEncodingTree.  compress calls it with no check of the
\* table: with an empty one buildTree returns nodes[0] of an empty vector,
\* a read through a null data pointer, which kills the process.
BuildEncodingTree ==
    /\ pc = "scanned"
    /\ treeBuilds' = Append(treeBuilds, Cardinality(DOMAIN m_freqTable))
    /\ IF DOMAIN m_freqTable = {}
       THEN /\ pc' = "crashed"
            /\ UNCHANGED <<m_huffmanTree, m_binMap>>
       ELSE LET tree == buildTree(m_freqTable)
            IN /\ m_huffmanTree' = tree
               /\ m_binMap' = buildBinMap(tree.heap, tree.root, <<>>, m_binMap)
               /\ pc' = "encoding"
    /\ UNCHANGED <<err, input, m_freqTable, m_buffer, m_curBit,
                   m_compressedSize, encIn, payload, decVars, cuts, fileVars>>

\* One Encoder::encode call and the write of what it returns.
EncodeStep(chunk) ==
    LET st == encode(EncoderState(m_binMap, m_buffer, m_curBit, m_compressedSize),
                     chunk)
    IN /\ m_binMap' = st.m_binMap
       /\ m_buffer' = st.m_buffer
       /\ m_curBit' = st.m_curBit
       /\ m_compressedSize' = st.m_compressedSize
       /\ encIn' = encIn \o chunk
       /\ payload' = payload \o st.data
       /\ cuts' = IF encIn # <<>> /\ m_curBit # 0 THEN cuts \cup {"enc"} ELSE cuts
       /\ UNCHANGED <<pc, err, input, m_freqTable, m_huffmanTree, treeBuilds,
                      decVars, fileVars>>

\* encodeFile's loop body.  encodeFile passes the next min(MAX_BUFFER, rest)
\* bytes; any shorter chunk is what a caller with a smaller buffer passes.
EncodeCall ==
    /\ pc = "encoding"
    /\ \E n \in 1..Min(MAX_BUFFER, Len(input) - Len(encIn)) :
           EncodeStep(SubSeq(input, Len(encIn) + 1, Len(encIn) + n))

\* The end of encodeFile with no byte written when no bit is pending.
FlushStepSkipEmpty ==
    LET r == getBuffer(EncoderState(m_binMap, m_buffer, m_curBit, m_compressedSize))
    IN /\ m_buffer' = r.m_buffer
       /\ m_compressedSize' = r.m_compressedSize
       /\ payload' = IF m_curBit = 0 THEN payload ELSE Append(payload, r.byte)
       /\ pc' = "encoded"
       /\ UNCHANGED <<err, input, m_freqTable, m_binMap, m_huffmanTree, m_curBit,
                      encIn, treeBuilds, decVars, cuts, fileVars>>

\* The end of encodeFile: buffer = encoder.getBuffer() makes a string of
\* one char, and its one byte is written.
FlushStep ==
    LET r == getBuffer(EncoderState(m_binMap, m_buffer, m_curBit, m_compressedSize))
    IN /\ m_buffer' = r.m_buffer
       /\ m_compressedSize' = r.m_compressedSize
       /\ payload' = Append(payload, r.byte)
       /\ pc' = "encoded"
       /\ UNCHANGED <<err, input, m_freqTable, m_binMap, m_huffmanTree, m_curBit,
                      encIn, treeBuilds, decVars, cuts, fileVars>>

GetBufferCall ==
    /\ pc = "encoding"
    /\ encIn = input
    /\ FlushStep

\* ---------------------------------------------------------- decompress side
\* Decoder::Decoder(freqTable, fileLen).  The constructor makes no check of
\* the table either.
ConstructDecoder(freqTable, fileLen) ==
    /\ treeBuilds' = Append(treeBuilds, Cardinality(DOMAIN freqTable))
    /\ IF DOMAIN freqTable = {}
       THEN /\ pc' = "crashed"
            /\ UNCHANGED <<m_hTree, m_curNode, m_curByte, m_fileLen>>
       ELSE LET tree == buildTree(freqTable)
            IN /\ m_hTree' = tree
               /\ m_curNode' = tree.root
               /\ m_curByte' = 0
               /\ m_fileLen' = fileLen
               /\ pc' = "decoding"
    /\ UNCHANGED <<err, input, encVars, decIn, decoded, cuts, fileVars>>

\* A Decoder made from the table and the length the header carries.
NewDecoder ==
    /\ pc = "encoded"
    /\ ConstructDecoder(m_freqTable, Len(input))

\* One Decoder::decode call and the write of what it returns.
DecodeStep(chunk) ==
    LET st == decode(DecoderState(m_curNode, m_curByte), m_hTree, m_fileLen, chunk)
    IN /\ decIn' = decIn \o chunk
       /\ cuts' = IF decIn # <<>> /\ m_curNode # m_hTree.root
                  THEN cuts \cup {"dec"} ELSE cuts
       /\ IF st.crashed
          THEN /\ pc' = "crashed"
               /\ UNCHANGED <<m_curNode, m_curByte, decoded>>
          ELSE /\ m_curNode' = st.m_curNode
               /\ m_curByte' = st.m_curByte
               /\ decoded' = decoded \o st.data
               /\ pc' = pc
       /\ UNCHANGED <<err, input, encVars, treeBuilds, m_hTree, m_fileLen,
                      fileVars>>

\* The payload handed to the decoder in consecutive chunks of any size.
DecodeCall ==
    /\ pc = "decoding"
    /\ \E n \in 1..(Len(payload) - Len(decIn)) :
           DecodeStep(SubSeq(payload, Len(decIn) + 1, Len(decIn) + n))

\* ---------------------------------------------- compress, then a Decoder
Init == \E file \in SeqsUpTo(Symbols, MaxLen) : StartState(file)

Next ==
    \/ CreatePrefix
    \/ BuildEncodingTree
    \/ EncodeCall
    \/ GetBufferCall
    \/ NewDecoder
    \/ DecodeCall

Spec == Init /\ [][Next]_vars

\* ------------------------------------------------------- the container file
\* A 32-bit value is given by the int it is as a two's complement number:
\* a uint32_t of 2^31 or more by that number less 2^32 (the int its callers
\* convert it to).
\* writeInt: a 4-byte integer, big endian.
writeInt(num) ==
    <<(num \div Pow2(24)) % BYTE, (num \div Pow2(16)) % BYTE,
      (num \div Pow2(8)) % BYTE, num % BYTE>>

\* istream::read of n bytes at pos into a zero-filled buffer: past the end
\* of the file the buffer keeps its zeros.
ReadBytes(bytes, pos, n) ==
    [i \in 1..n |-> IF pos + i <= Len(bytes) THEN bytes[pos + i] ELSE 0]

\* istream::get(): the next byte, EOF (-1) past the end, kept in a uint8_t.
GetByte(bytes, pos) == IF pos + 1 <= Len(bytes) THEN bytes[pos + 1] ELSE BYTE - 1

\* The stream position after a read of n bytes at pos.
Advance(bytes, pos, n) == Min(pos + n, Len(bytes))

\* readInt: 4 bytes, big endian, read into uint8_t data[4]{}.
readInt(bytes, pos) ==
    LET data == ReadBytes(bytes, pos, 4)
        top == IF data[1] >= BYTE \div 2 THEN data[1] - BYTE ELSE data[1]
    IN top * Pow2(24) + data[2] * Pow2(16) + data[3] * Pow2(8) + data[4]

\* The table section of writeHeader: for each entry of the map, in its
\* order, put(symbol) and writeInt(count).
writeTable(freqTable, keys) ==
    [j \in 1..(5 * Len(keys)) |->
        LET key == keys[(j - 1) \div 5 + 1]
            at == (j - 1) % 5
        IN IF at = 0 THEN key ELSE writeInt(freqTable[key])[at]]

\* writeHeader: the bytes written.  The four bytes of the compressed size
\* are skipped by seekp and left as the hole's zeros; the name's length and
\* the table's size are each stored in a uint8_t.
writeHeader(in) ==
    LET fnsize == Len(in.filename) % BYTE
        tableSize == Cardinality(DOMAIN in.freqTable) % BYTE
    IN uniqueSig
         \o <<curFileVersion.major, curFileVersion.minor>>
         \o in.hash
         \o writeInt(in.fileLen)
         \o <<0, 0, 0, 0>>
         \o <<fnsize>> \o in.filename
         \o <<tableSize>>
         \o writeTable(in.freqTable, SortedKeys(DOMAIN in.freqTable))

\* writeHeader's return value: tellp() before the compressed size.
cmprSizeOffset == Len(uniqueSig) + 2 + HASH_LEN + 4

\* The end of compress: seekp(cmprSizeOffset) and writeInt(compressedSize).
PatchAt(bytes, offset, four) ==
    [i \in 1..Len(bytes) |->
        IF i > offset /\ i <= offset + 4 THEN four[i - offset] ELSE bytes[i]]

\* The table loop of readHeader: freqTableSize times get(key), readInt and
\* header.freqTable[key] = value.  Entry i is read at pos + 5 * (i - 1); of
\* the entries with the same key the last one read stays.
readTable(bytes, pos, freqTableSize) ==
    LET EntryAt(i) == Advance(bytes, pos, 5 * (i - 1))
        KeyOf(i) == GetByte(bytes, EntryAt(i))
        ValueOf(i) == readInt(bytes, Advance(bytes, EntryAt(i), 1))
        Last(key) == CHOOSE i \in 1..freqTableSize :
                        /\ KeyOf(i) = key
                        /\ \A j \in (i + 1)..freqTableSize : KeyOf(j) # key
    IN [freqTable |-> [key \in {KeyOf(i) : i \in 1..freqTableSize} |->
                          ValueOf(Last(key))],
        pos |-> Advance(bytes, pos, 5 * freqTableSize)]

\* readHeader, from the position checkSig left the stream at.
readHeader(bytes, pos) ==
    LET major == GetByte(bytes, pos)
        minor == GetByte(bytes, pos + 1)
        hashAt == Advance(bytes, pos, 2)
        hash == ReadBytes(bytes, hashAt, HASH_LEN)
        sizeAt == Advance(bytes, hashAt, HASH_LEN)
        fileSize == readInt(bytes, sizeAt)
        compressedSize == readInt(bytes, Advance(bytes, sizeAt, 4))
        lenAt == Advance(bytes, sizeAt, 8)
        nameLen == GetByte(bytes, lenAt)
        nameAt == Advance(bytes, lenAt, 1)
        filename == ReadBytes(bytes, nameAt, nameLen)
        tableAt == Advance(bytes, nameAt, nameLen)
        freqTableSize == ReadBytes(bytes, tableAt, 1)[1]
        table == readTable(bytes, Advance(bytes, tableAt, 1), freqTableSize)
    IN [header |-> [fileVersion |-> [major |-> major, minor |-> minor],
                    hash |-> hash, fileSize |-> fileSize,
                    compressedSize |-> compressedSize, filename |-> filename,
                    freqTable |-> table.freqTable],
        pos |-> table.pos]

\* The headers compress writes: a table of 1 to 256 symbols, each count at
\* least 1, the length their sum; a name of 0 to 255 bytes; a digest of 32
\* characters.
TableSizes == {1, 2, 3, 256}
FirstCounts == {1, 16909060}
NameLens == {0, 1, 255}
Hashes == {[i \in 1..HASH_LEN |-> 48 + (i % 10)], [i \in 1..HASH_LEN |-> 102]}
CompressedSizes == {1, 66051}

TableOf(n, first) == [c \in 0..(n - 1) |-> IF c = 0 THEN first ELSE 1]
NameOf(len) == [i \in 1..len |-> 97 + (i % 26)]

\* compress: writeHeader.
WriteHeader ==
    /\ pc = "hstart"
    /\ container' = writeHeader(hdrIn)
    /\ pc' = "hwritten"
    /\ UNCHANGED <<err, input, encVars, treeBuilds, decVars, cuts, hdrIn, rpos,
                   header, output>>

\* compress: the compressed size written at the saved offset.
PatchCompressedSize ==
    /\ pc = "hwritten"
    /\ \E size \in CompressedSizes :
           container' = PatchAt(container, cmprSizeOffset, writeInt(size))
    /\ pc' = "hpatched"
    /\ UNCHANGED <<err, input, encVars, treeBuilds, decVars, cuts, hdrIn, rpos,
                   header, output>>

\* The bytes 0, 2 and 255 differ from every byte of the signature and of the
\* version.
ForeignBytes == {0, 2, 255}

\* decompress: the input file is opened.  It is the file compress wrote or a
\* file that differs from it in one byte of the signature or of the version.
OpenInput ==
    /\ pc = "hpatched"
    /\ \/ container' = container
       \/ \E i \in 1..(Len(uniqueSig) + 2), b \in ForeignBytes :
              container' = [container EXCEPT ![i] = b]
    /\ pc' = "opened"
    /\ UNCHANGED <<err, input, encVars, treeBuilds, decVars, cuts, hdrIn, rpos,
                   header, output>>

\* decompress: checkSig.
CheckSig ==
    /\ pc = "opened"
    /\ rpos' = Advance(container, rpos, Len(uniqueSig))
    /\ IF ReadBytes(container, rpos, Len(uniqueSig)) # uniqueSig
       THEN /\ err' = "SignatureMismatch"
            /\ pc' = "rejected"
       ELSE /\ err' = err
            /\ pc' = "sigok"
    /\ UNCHANGED <<input, encVars, treeBuilds, decVars, cuts, hdrIn, container,
                   header, output>>

\* decompress: readHeader.
ReadHeader ==
    /\ pc = "sigok"
    /\ LET r == readHeader(container, rpos)
       IN /\ header' = r.header
          /\ rpos' = r.pos
    /\ pc' = "hread"
    /\ UNCHANGED <<err, input, encVars, treeBuilds, decVars, cuts, hdrIn,
                   container, output>>

\* The check of the table alone, whatever the version.
CheckHeaderNoVersion ==
    /\ pc = "hread"
    /\ IF DOMAIN header.freqTable = {}
       THEN /\ err' = "EmptyFrequencyTable"
            /\ pc' = "rejected"
       ELSE /\ err' = err
            /\ pc' = "accepted"
    /\ UNCHANGED <<input, encVars, treeBuilds, decVars, cuts, fileVars>>

\* decompress: the check of the version, then of the table.
CheckHeader ==
    /\ pc = "hread"
    /\ IF header.fileVersion # curFileVersion
       THEN /\ err' = "VersionMismatch"
            /\ pc' = "rejected"
       ELSE IF DOMAIN header.freqTable = {}
       THEN /\ err' = "EmptyFrequencyTable"
            /\ pc' = "rejected"
       ELSE /\ err' = err
            /\ pc' = "accepted"
    /\ UNCHANGED <<input, encVars, treeBuilds, decVars, cuts, fileVars>>

\* decompress: the output file is created, unless a file of that name is
\* there and the overwrite flag is not given.
CreateOutput ==
    /\ pc = "accepted"
    /\ \E exists \in BOOLEAN, overwriteFlag \in BOOLEAN :
           IF exists /\ ~overwriteFlag
           THEN /\ pc' = "refused"
                /\ output' = output
           ELSE /\ pc' = "outopen"
                /\ output' = "created"
    /\ UNCHANGED <<err, input, encVars, treeBuilds, decVars, cuts, hdrIn,
                   container, rpos, header>>

\* decompress: huffman::Decoder decoder(header.freqTable, header.fileSize).
OpenDecoder ==
    /\ pc = "outopen"
    /\ ConstructDecoder(header.freqTable, header.fileSize)

\* decompress: one turn of while (!decoder.done()): a buffer of bytes goes
\* through decode and what decode returns is written.  The buffer is never
\* empty: it is resized to MAX_BUFFER before the read, whatever the read
\* finds.
DecodeLoop ==
    /\ pc = "decoding"
    /\ ~done(m_curByte, m_fileLen)
    /\ \E chunk \in SeqsUpTo(PayloadBytes, MaxChunk) \ {<<>>} : DecodeStep(chunk)

\* The loop of decompress on a container, followed for MaxPayload bytes.
DecodeFile ==
    /\ Len(decIn) < MaxPayload
    /\ DecodeLoop

InitFile ==
    \E n \in TableSizes, first \in FirstCounts, len \in NameLens, hash \in Hashes :
        BaseState("hstart", <<>>,
                  HeaderIn(first + n - 1, NameOf(len), TableOf(n, first), hash))

NextFile ==
    \/ WriteHeader
    \/ PatchCompressedSize
    \/ OpenInput
    \/ CheckSig
    \/ ReadHeader
    \/ CheckHeader
    \/ CreateOutput
    \/ OpenDecoder
    \/ DecodeFile

SpecFile == InitFile /\ [][NextFile]_vars

\* ------------------------------- an Encoder and a Decoder driven by any caller
\* Encoder::encode on any bytes, whether or not buildFreqTable counted them.
EncodeAny ==
    /\ pc = "encoding"
    /\ \E chunk \in SeqsUpTo(Symbols, MaxData - Len(encIn)) \ {<<>>} :
           EncodeStep(chunk)

\* Encoder::getBuffer at any point.
GetBufferAny ==
    /\ pc = "encoding"
    /\ FlushStep

\* A Decoder made from the scanned table and any expected length.
NewDecoderAny ==
    /\ pc = "scanned"
    /\ \E fileLen \in 0..MaxFileLen : ConstructDecoder(m_freqTable, fileLen)

\* Decoder::decode on any bytes.
DecodeAny ==
    /\ pc = "decoding"
    /\ \E chunk \in SeqsUpTo(PayloadBytes, MaxPayload - Len(decIn)) \ {<<>>} :
           DecodeStep(chunk)

InitApi == \E file \in SeqsUpTo(Symbols, MaxScan) : StartState(file)

NextApi ==
    \/ CreatePrefix
    \/ BuildEncodingTree
    \/ EncodeAny
    \/ GetBufferAny
    \/ NewDecoderAny
    \/ DecodeAny

SpecApi == InitApi /\ [][NextApi]_vars

\* ------------------------------------ the loop of decompress on any payload
\* A Decoder made from the scanned table and any expected length.
NewDecoderLoop ==
    /\ pc = "scanned"
    /\ \E fileLen \in 0..MaxLoopLen : ConstructDecoder(m_freqTable, fileLen)

NextLoop ==
    \/ CreatePrefix
    \/ NewDecoderLoop
    \/ DecodeLoop

\* While done() is false the loop takes its next turn.
SpecLoop == InitApi /\ [][NextLoop]_vars /\ WF_vars(DecodeLoop)

\* ------------------------------------------------------- claims: definitions
\* The tree and code table have been built.
Built == m_huffmanTree # NoTree
\* encodeFile has returned: every chunk encoded and the last byte written.
Flushed == pc \in {"encoded", "decoding"} \/ (pc = "crashed" /\ m_hTree # NoTree)
\* A Decoder has been constructed.
DecoderMade == m_hTree # NoTree

IsPrefix(s, t) == Len(s) <= Len(t) /\ SubSeq(t, 1, Len(s)) = s

\* The codes of the bytes of data, one after the other.
RECURSIVE AllBits(_, _)
AllBits(binMap, data) ==
    IF data = <<>> THEN <<>>
    ELSE binMap[Head(data)] \o AllBits(binMap, Tail(data))

\* The byte whose high-order bits are the given (at most 8) bits, the rest 0.
RECURSIVE LeftJustified(_)
LeftJustified(bits) ==
    IF bits = <<>> THEN 0
    ELSE Head(bits) * 128 + LeftJustified(Tail(bits)) \div 2

\* C1: decoding the encoder's whole output with a Decoder built from the
\* same table and the input's length gives back the input (and the decoder
\* gets that far), whatever the input.
C1_RoundTrip ==
    (DecoderMade /\ (pc = "crashed" \/ decIn = payload))
        => (pc # "crashed" /\ decoded = input)

\* C2: however the input is cut into encode calls, the bytes written, the
\* accumulator and the compressed size are those of one encode call on all
\* the bytes handed over so far; however the payload is cut into decode
\* calls, the bytes returned and the decoder's state are those of one decode
\* call on all the bytes handed over so far.
C2_ChunkInvariance ==
    /\ pc = "encoding" =>
         LET fresh == buildBinMap(m_huffmanTree.heap, m_huffmanTree.root,
                                  <<>>, EmptyMap)
             whole == encode(EncoderState(fresh, 0, 0, 0), encIn)
         IN /\ payload = whole.data
            /\ m_buffer = whole.m_buffer
            /\ m_curBit = whole.m_curBit
            /\ m_compressedSize = whole.m_compressedSize
            /\ m_binMap = whole.m_binMap
    /\ DecoderMade =>
         LET whole == decode(DecoderState(m_hTree.root, 0), m_hTree,
                             m_fileLen, decIn)
         IN IF pc = "crashed" THEN whole.crashed
            ELSE /\ ~whole.crashed
                 /\ decoded = whole.data
                 /\ m_curNode = whole.m_curNode
                 /\ m_curByte = whole.m_curByte

\* C2 witness: the whole input went through encode calls one of which began
\* with pending bits, the whole payload through decode calls one of which
\* began in the middle of a code.
C2_Witness ==
    /\ cuts = {"enc", "dec"}
    /\ pc = "decoding"
    /\ decIn = payload
    /\ Len(payload) >= 2

\* C3: a table with one entry gives that symbol a code of at least one bit,
\* and decoding gives the n copies back with the decoder never stepping to
\* a child that does not exist.
C3_SingleSymbol ==
    (Built /\ Cardinality(DOMAIN m_freqTable) = 1) =>
        /\ \A c \in DOMAIN m_binMap : Len(m_binMap[c]) >= 1
        /\ m_curNode # 0 \/ ~DecoderMade
        /\ pc # "crashed"
        /\ (DecoderMade /\ decIn = payload) => decoded = input

\* C5: the code table built from a table with at least one entry has one
\* code for each symbol of the table, and no code is a prefix of another
\* symbol's code.
C5_PrefixFree ==
    Built =>
        /\ DOMAIN m_binMap = DOMAIN m_freqTable
        /\ \A a, b \in DOMAIN m_binMap :
               a # b => ~IsPrefix(m_binMap[a], m_binMap[b])

\* C5 witness: a code table of three symbols with codes of different lengths.
C5_Witness ==
    /\ Built
    /\ Cardinality(DOMAIN m_binMap) = 3
    /\ \E a, b \in DOMAIN m_binMap : Len(m_binMap[a]) < Len(m_binMap[b])

\* C6: buildTree never runs on a table with no entry: the operation stops
\* with EmptyFrequencyTable before.
C6_EmptyTableRefused ==
    /\ \A i \in DOMAIN treeBuilds : treeBuilds[i] # 0
    /\ (m_freqTable = EmptyMap /\ pc \notin {"start", "scanned"})
           => err = "EmptyFrequencyTable"

\* C8 (as amended): the flush writes exactly one byte after the full bytes:
\* with 1 to 7 bits pending its high-order bits are the pending bits in
\* order and the rest is zero; with none pending the byte is zero.
C8_FlushOneByte ==
    Flushed =>
        LET bits == AllBits(m_binMap, encIn)
            full == Len(bits) \div 8
        IN /\ Len(payload) = full + 1
           /\ payload[full + 1] = LeftJustified(SubSeq(bits, 8 * full + 1, Len(bits)))

\* C8 witness: a flush with bits pending after a full byte, the byte nonzero.
C8_Witness ==
    /\ Flushed
    /\ m_curBit \in 1..7
    /\ Len(payload) = 2
    /\ payload[2] # 0

\* C8 (as claimed): with 1 to 7 bits pending one byte is written, with none
\* pending no byte is written.
C8_FlushNothingWhenEmpty ==
    Flushed =>
        LET bits == AllBits(m_binMap, encIn)
            full == Len(bits) \div 8
        IN Len(payload) = (IF Len(bits) % 8 = 0 THEN full ELSE full + 1)

\* C9: after the flush, compressedSize() is the number of payload bytes
\* written.
C9_CompressedSize == Flushed => m_compressedSize = Len(payload)

\* C7: encode fails with UnknownSymbol on a byte that has no entry in the
\* code table, and adds no entry to the code table.
C7_UnknownSymbol ==
    /\ (\E i \in DOMAIN encIn : encIn[i] \notin DOMAIN m_freqTable)
           => err = "UnknownSymbol"
    /\ Built => DOMAIN m_binMap = DOMAIN m_freqTable

\* C10: the bytes returned by the decode calls so far are never more than
\* the expected length, and done() is true exactly when they are as many.
C10_StopsAtLength ==
    (DecoderMade /\ pc # "crashed") =>
        /\ Len(decoded) <= m_fileLen
        /\ done(m_curByte, m_fileLen) <=> Len(decoded) = m_fileLen

\* C10 witness: all the expected bytes are out and the bits that followed
\* reached further leaves, which gave no output.
C10_Witness ==
    /\ pc = "decoding"
    /\ m_fileLen >= 1
    /\ Len(decoded) = m_fileLen
    /\ m_curByte > m_fileLen

\* C4: a header written with a table of up to 256 entries and a name of up
\* to 255 bytes reads back with the same version, digest, original length,
\* name and table.
C4_HeaderRoundTrip ==
    (pc = "hread" /\ SubSeq(container, 1, Len(uniqueSig) + 2) = uniqueSig \o <<curFileVersion.major, curFileVersion.minor>>) =>
        /\ header.fileVersion = curFileVersion
        /\ header.hash = hdrIn.hash
        /\ header.fileSize = hdrIn.fileLen
        /\ header.filename = hdrIn.filename
        /\ header.freqTable = hdrIn.freqTable

\* C11: once done() is true a further decode call returns no bytes and
\* leaves the current node and the symbol count as they were.
C11_NoOpAfterDone ==
    [][(pc = "decoding" /\ done(m_curByte, m_fileLen) /\ decIn' # decIn)
          => (/\ decoded' = decoded
              /\ m_curNode' = m_curNode
              /\ m_curByte' = m_curByte)]_vars

\* decompress has done nothing of the decoding: no Decoder and no tree, no
\* output file, no byte through decode.
NoDecodeWork ==
    /\ m_hTree = NoTree
    /\ treeBuilds = <<>>
    /\ output = "none"
    /\ decIn = <<>>
    /\ decoded = <<>>

BadSignature == SubSeq(container, 1, Len(uniqueSig)) # uniqueSig
BadVersion ==
    \/ container[Len(uniqueSig) + 1] # curFileVersion.major
    \/ container[Len(uniqueSig) + 2] # curFileVersion.minor

\* C12: a container whose first four bytes are not "ANHC" is rejected with
\* nothing read after them, and a container whose version is not (1,1) is
\* rejected once the header is read; in both cases no Decoder is made, no
\* tree is built, no output file is created and no byte is decoded.
C12_RejectedBeforeDecode ==
    /\ (pc \notin {"hstart", "hwritten", "hpatched", "opened"} /\ BadSignature)
          => /\ pc = "rejected"
             /\ err = "SignatureMismatch"
             /\ rpos = Len(uniqueSig)
             /\ header = Header
             /\ NoDecodeWork
    /\ (pc \in {"sigok", "hread"} /\ ~BadSignature /\ BadVersion) => NoDecodeWork
    /\ (pc \notin {"hstart", "hwritten", "hpatched", "opened", "sigok", "hread"}
           /\ ~BadSignature /\ BadVersion)
          => /\ pc = "rejected"
             /\ err = "VersionMismatch"
             /\ NoDecodeWork

C12_Witness ==
    /\ pc = "rejected"
    /\ err = "VersionMismatch"
    /\ header.fileVersion.major = curFileVersion.major
    /\ header.fileVersion.minor # curFileVersion.minor
    /\ DOMAIN header.freqTable # {}
    /\ NoDecodeWork

\* The nodes still in the working list when node k is made: those made
\* before k that are not yet a child.  The list keeps them in the order of
\* their making: it starts with the leaves, a removal keeps the order of the
\* rest, and a new node goes to the end.
Working(heap, k) ==
    {i \in 1..(k - 1) : \A j \in 1..(k - 1) : heap[j].left # i /\ heap[j].right # i}

\* n is of the least frequency among the nodes of S and the earliest of that
\* frequency.
EarliestLeast(heap, S, n) ==
    /\ n \in S
    /\ \A i \in S : heap[n].freq <= heap[i].freq
    /\ \A i \in S : i < n => heap[i].freq > heap[n].freq

\* The tree the construction with its tie-break gives for freqTable.
TieBreakTree(freqTable, tree) ==
    LET heap == tree.heap
        n == Cardinality(DOMAIN freqTable)
    IN /\ Len(heap) = 2 * n - 1
       /\ tree.root = Len(heap)
       /\ \A i \in 1..n :
              /\ heap[i].character \in DOMAIN freqTable
              /\ heap[i].freq = freqTable[heap[i].character]
              /\ heap[i].left = 0 /\ heap[i].right = 0
              /\ i > 1 => heap[i - 1].character < heap[i].character
       /\ \A k \in (n + 1)..Len(heap) :
              /\ heap[k].character = NOT_A_CHAR
              /\ EarliestLeast(heap, Working(heap, k), heap[k].left)
              /\ EarliestLeast(heap, Working(heap, k) \ {heap[k].left}, heap[k].right)
              /\ heap[k].freq = heap[heap[k].left].freq + heap[heap[k].right].freq

\* The node reached from node along path, 0 to the left and 1 to the right.
RECURSIVE Walk(_, _, _)
Walk(heap, node, path) ==
    IF path = <<>> \/ node = 0 THEN node
    ELSE Walk(heap, IF Head(path) = 0 THEN heap[node].left ELSE heap[node].right,
              Tail(path))

\* C13: the tree is the one the tie-break fixes: leaves in ascending symbol
\* order, each new node made of the earliest least-frequent node (left) and
\* the earliest least-frequent of the rest (right), its frequency their sum,
\* added at the end; the encoder's and the decoder's trees for one table are
\* the same, and each code leads to its symbol's leaf in the decoder's tree.
C13_TieBreakTree ==
    /\ Built => TieBreakTree(m_freqTable, m_huffmanTree)
    /\ DecoderMade =>
           /\ TieBreakTree(m_freqTable, m_hTree)
           /\ Built =>
                  /\ m_hTree = m_huffmanTree
                  /\ \A c \in DOMAIN m_freqTable :
                         LET leaf == Walk(m_hTree.heap, m_hTree.root, m_binMap[c])
                         IN /\ leaf # 0
                            /\ m_hTree.heap[leaf].character = c

C13_Witness ==
    /\ Built
    /\ DecoderMade
    /\ Cardinality(DOMAIN m_freqTable) >= 3
    /\ \E k \in 1..Len(m_hTree.heap) :
           LET node == m_hTree.heap[k]
           IN /\ node.character = NOT_A_CHAR
              /\ m_hTree.heap[node.left].character # NOT_A_CHAR
              /\ m_hTree.heap[node.right].character = NOT_A_CHAR
              /\ m_hTree.heap[node.left].freq = m_hTree.heap[node.right].freq

\* C14: for an input of two or more distinct byte values, however it is cut
\* into encode calls and however the payload is cut into decode calls, the
\* payload encodeFile wrote has at least one bit more than the codes of the
\* input together, and a Decoder made from the input's table and length that
\* has been given the whole payload has returned exactly the input and is
\* done.
C14_LastSymbolEmitted ==
    Cardinality(DOMAIN m_freqTable) >= 2 =>
        /\ Flushed => 8 * Len(payload) >= Len(AllBits(m_binMap, input)) + 1
        /\ (DecoderMade /\ decIn = payload) =>
               /\ pc = "decoding"
               /\ decoded = input
               /\ done(m_curByte, m_fileLen)

C14_Witness ==
    /\ Cardinality(DOMAIN m_freqTable) >= 2
    /\ DecoderMade
    /\ decIn = payload
    /\ Len(AllBits(m_binMap, input)) = 8
    /\ payload[Len(payload)] = 0
    /\ cuts = {"enc", "dec"}
    /\ decoded = input

\* C15: a Decoder made from a table of two or more entries, given buffer
\* after buffer of any bytes for as long as done() is false, is done in the
\* end, whatever its expected length.
C15_LoopTerminates ==
    (pc = "decoding" /\ Cardinality(DOMAIN m_freqTable) >= 2)
        ~> (pc = "decoding" /\ done(m_curByte, m_fileLen))

C15_Witness ==
    /\ pc = "decoding"
    /\ Cardinality(DOMAIN m_freqTable) >= 3
    /\ m_fileLen = MaxLoopLen
    /\ Len(decIn) >= 2
    /\ Len(decoded) = m_fileLen
    /\ done(m_curByte, m_fileLen)

====
